---------------------------- MODULE Spec2Model ----------------------------
(***************************************************************************)
(* hunter_game: hares, wolves, deer, a player and bullets, driven by the   *)
(* systems that the four plugins register in one stage.                    *)
(*                                                                         *)
(* One tick: the clock is read, every system runs once in an order that    *)
(* respects the before/after labels, then the queued commands (spawn,      *)
(* despawn) are applied.  A system is one atomic step.                     *)
(*                                                                         *)
(* Geometry: the arena is cut along the y axis (x = 0, z = 0 for every     *)
(* entity; the initial velocity (0, -2, 0) lies on it), so a vector is its *)
(* y component.  Lengths are kept in sixths of a world unit, so that       *)
(* speed * TIME_STEP (1/60) is exact for the speeds used.  A float is an   *)
(* integer or NaN.                                                         *)
(***************************************************************************)
EXTENDS Integers, Sequences, FiniteSets, TLC

VARIABLES
    world,          \* entity id -> components, for the live entities
    cmds,           \* Commands queued by the systems of the running tick
    done,           \* systems that have run in the running tick
    last,           \* the step just taken (a system label, "tick", "apply")
    now,            \* Time::seconds_since_startup read in the running tick
    activeHares,    \* ActiveHares.count
    activeWolves,   \* ActiveWolves.count
    deerGroups,     \* DeerGroups.groups
    nextId,         \* next entity id to reserve
    applied,        \* history: the commands applied at the end of the last tick
    free,           \* the systems whose place in the order is explored
    panicked,       \* the process has panicked
    settings,       \* the population targets read from the configuration
    call            \* a function of utils.rs / steering.rs applied on its own

vars == <<world, cmds, done, last, now, activeHares, activeWolves, deerGroups,
          nextId, applied, free, panicked, settings, call>>

----------------------------------------------------------------------------
(* Bounds of the exploration *)

MaxTime == 10

----------------------------------------------------------------------------
(* Configuration (assets/settings.json, read by setup) and literals,        *)
(* in world units and seconds                                               *)

HareMaxNumber == 2
WolfMaxNumber == 2
DeerMaxNumber == 4
DeerGroupNumber == 2
HareMovementSpeed == 180
WolfMovementSpeed == 120
DeerMovementSpeed == 180
BulletMovementSpeed == 600
BulletMaxDuration == 3
SpriteSize == 60
BulletSize == 24
WindowHeight == 720
WindowWidth == 1280
MaxFleeTime == 2
MaxHungerTime == 5

W(x) == 6 * x

FieldHeight == W(WindowHeight - 20)
FieldWidth == W(WindowWidth - 80)

\* HareData.max_number, WolfData.max_number, DeerData.group_number
Configured ==
    [hare_max_number |-> HareMaxNumber,
     wolf_max_number |-> WolfMaxNumber,
     deer_group_number |-> DeerGroupNumber]

\* no function of utils.rs / steering.rs is applied on its own
Idle == [fn |-> "none", args |-> <<>>, returned |-> FALSE, value |-> 0]

\* speed.value * TIME_STEP
TimeStep(s) == W(s) \div 60

----------------------------------------------------------------------------
(* f32 arithmetic: NaN is absorbing and compares false with everything *)

NaN == -(2 ^ 30)

IsNaN(a) == a = NaN

FAdd(a, b) == IF IsNaN(a) \/ IsNaN(b) THEN NaN ELSE a + b
FSub(a, b) == IF IsNaN(a) \/ IsNaN(b) THEN NaN ELSE a - b
FMul(a, b) == IF IsNaN(a) \/ IsNaN(b) THEN NaN ELSE a * b
FGt(a, b) == ~IsNaN(a) /\ ~IsNaN(b) /\ a > b
FLt(a, b) == ~IsNaN(a) /\ ~IsNaN(b) /\ a < b
FGe(a, b) == ~IsNaN(a) /\ ~IsNaN(b) /\ a >= b
FEq(a, b) == ~IsNaN(a) /\ ~IsNaN(b) /\ a = b

Sign(v) == IF v > 0 THEN 1 ELSE IF v < 0 THEN -1 ELSE 0
Abs(v) == IF v < 0 THEN -v ELSE v

\* Vec3::normalize: vec * (1 / length); 0 * inf is NaN
normalize(vec) == IF IsNaN(vec) \/ vec = 0 THEN NaN ELSE Sign(vec)

----------------------------------------------------------------------------
(* utils.rs *)

\* limit, were the component compared with max (vec > max for mag_sq > max * max)
limit_signed(vec, max) ==
    IF FGt(vec, max) THEN FMul(Sign(vec), max) ELSE vec

\* vec / mag_sq.sqrt() is the sign of vec on the axis
limit(vec, max) ==
    LET mag_sq == FMul(vec, vec)
    IN  IF FGt(mag_sq, FMul(max, max)) THEN FMul(Sign(vec), max) ELSE vec

set_mag(vec, n) == FMul(normalize(vec), n)

dist(vec_a, vec_b) ==
    IF IsNaN(vec_a) \/ IsNaN(vec_b) THEN NaN ELSE Abs(vec_b - vec_a)

Err == [ok |-> FALSE, x |-> 0, y |-> 0]

\* line_line_intersection, were u tested like t (0 < u < 1 for u > 1)
line_line_intersection_segment(a1, a2, b1, b2) ==
    LET x1 == a1[1]
        y1 == a1[2]
        x2 == a2[1]
        y2 == a2[2]
        x3 == b1[1]
        y3 == b1[2]
        x4 == b2[1]
        y4 == b2[2]
        den == (x1 - x2) * (y3 - y4) - (y1 - y2) * (x3 - x4)
        tn == (x1 - x3) * (y3 - y4) - (y1 - y3) * (x3 - x4)
        un == -((x1 - x2) * (y1 - y3) - (y1 - y2) * (x1 - x3))
    IN  IF \E c \in {x1, y1, x2, y2, x3, y3, x4, y4} : IsNaN(c) THEN Err
        ELSE IF den = 0 THEN Err
        ELSE IF IF den > 0 THEN tn > 0 /\ tn < den /\ un > 0 /\ un < den
                         ELSE tn < 0 /\ tn > den /\ un < 0 /\ un > den
             THEN [ok |-> TRUE,
                   x |-> x1 + (tn * (x2 - x1)) \div den,
                   y |-> y1 + (tn * (y2 - y1)) \div den]
             ELSE Err

\* line_line_intersection, were every crossing ahead of b1 accepted (u > 0)
line_line_intersection_forward(a1, a2, b1, b2) ==
    LET x1 == a1[1]
        y1 == a1[2]
        x2 == a2[1]
        y2 == a2[2]
        x3 == b1[1]
        y3 == b1[2]
        x4 == b2[1]
        y4 == b2[2]
        den == (x1 - x2) * (y3 - y4) - (y1 - y2) * (x3 - x4)
        tn == (x1 - x3) * (y3 - y4) - (y1 - y3) * (x3 - x4)
        un == -((x1 - x2) * (y1 - y3) - (y1 - y2) * (x1 - x3))
    IN  IF \E c \in {x1, y1, x2, y2, x3, y3, x4, y4} : IsNaN(c) THEN Err
        ELSE IF den = 0 THEN Err
        ELSE IF IF den > 0 THEN tn > 0 /\ tn < den /\ un > 0
                         ELSE tn < 0 /\ tn > den /\ un < 0
             THEN [ok |-> TRUE,
                   x |-> x1 + (tn * (x2 - x1)) \div den,
                   y |-> y1 + (tn * (y2 - y1)) \div den]
             ELSE Err

\* Points are <<x, y>>.  t = tn / den and u = un / den are compared by the
\* sign of den; every comparison with a NaN operand is false.
line_line_intersection(a1, a2, b1, b2) ==
    LET x1 == a1[1]
        y1 == a1[2]
        x2 == a2[1]
        y2 == a2[2]
        x3 == b1[1]
        y3 == b1[2]
        x4 == b2[1]
        y4 == b2[2]
        den == (x1 - x2) * (y3 - y4) - (y1 - y2) * (x3 - x4)
        tn == (x1 - x3) * (y3 - y4) - (y1 - y3) * (x3 - x4)
        un == -((x1 - x2) * (y1 - y3) - (y1 - y2) * (x1 - x3))
    IN  IF \E c \in {x1, y1, x2, y2, x3, y3, x4, y4} : IsNaN(c) THEN Err
        ELSE IF den = 0 THEN Err
        ELSE IF IF den > 0 THEN tn > 0 /\ tn < den /\ un > den
                         ELSE tn < 0 /\ tn > den /\ un < den
             THEN [ok |-> TRUE,
                   x |-> x1 + (tn * (x2 - x1)) \div den,
                   y |-> y1 + (tn * (y2 - y1)) \div den]
             ELSE Err

----------------------------------------------------------------------------
(* steering.rs *)

seek(position, velocity, target, max_speed) ==
    LET desired == set_mag(FSub(target, position), max_speed)
        steer == FSub(desired, velocity)
    IN  limit(steer, max_speed)

flee(position, velocity, target, max_speed) ==
    LET desired == set_mag(FSub(position, target), max_speed)
        steer == FSub(desired, velocity)
    IN  limit(steer, max_speed)

\* Angles are counted in quarter turns (wander_theta starts at PI / 2 = 1).
\* atan2(velocity.y, velocity.x) with velocity.x = 0
Atan2(vy) == IF IsNaN(vy) THEN NaN ELSE Sign(vy)

Sin(theta) ==
    IF IsNaN(theta) THEN NaN
    ELSE CASE theta % 4 = 0 -> 0
           [] theta % 4 = 1 -> 1
           [] theta % 4 = 2 -> 0
           [] theta % 4 = 3 -> -1

wander(position, velocity, wander_radius, distance, wander_theta, max_force) ==
    LET theta == FAdd(wander_theta, Atan2(velocity))
        y == FMul(wander_radius, Sin(theta))
        wander_point == FAdd(FAdd(set_mag(velocity, distance), position), y)
        steer == FSub(wander_point, position)
    IN  set_mag(steer, max_force)

\* future_position = target_position + target_velocity * (|distance| / max_speed).
\* seek and flee use position and target only through the direction of their
\* difference, so both are passed multiplied by max_speed (> 0), which keeps
\* the quotient exact.
pursue(position, velocity, target_position, target_velocity, max_speed) ==
    LET distance == FSub(target_position, position)
        length == IF IsNaN(distance) THEN NaN ELSE Abs(distance)
        future_position == FAdd(FMul(target_position, max_speed),
                                FMul(target_velocity, length))
    IN  seek(FMul(position, max_speed), velocity, future_position, max_speed)

evade(position, velocity, target_position, target_velocity, max_speed) ==
    LET distance == FSub(target_position, position)
        length == IF IsNaN(distance) THEN NaN ELSE Abs(distance)
        future_position == FAdd(FMul(target_position, max_speed),
                                FMul(target_velocity, length))
    IN  flee(FMul(position, max_speed), velocity, future_position, max_speed)

----------------------------------------------------------------------------
(* Steering configuration (settings.json), in world units *)

WanderWeight == 1
WanderRadius == 1
WanderDistance == 2
WanderMaxForce == 1
FleeWeight == 1
EvadeWallsWeight == 1
PursueWeight == 1
EvadeWeight == 1
PerceptionRadius == 50
FlockingMaxForce == 1

(* Random draws and inputs, each from a small set *)

HareSpawnYs == {-W(50), W(30)}
WolfSpawnYs == {W(64), W(30)}
DeerSpawnYs == {-W(100)}
DeerOffsets == {<<-W(20), 0, W(3)>>}
GroupIds == {1, 2}
Displacements == {1}
MouseYs == {-W(300)}
KeyDirs == {0}
\* clock values at which the mouse button may be released
ShotTimes == {1}
\* <<clock value, seconds>>: frames that may take longer than one second
LongFrames == {<<1, 8>>, <<7, 2>>, <<2, 6>>}

----------------------------------------------------------------------------
(* Entities and their components *)

Ent(kind, pos, vel, theta, speed) ==
    [kind |-> kind,
     pos |-> pos,                \* Transform.translation
     rot |-> 0,                  \* Transform.rotation: angle about z
     vel |-> vel,                \* Physics.velocity
     acc |-> 0,                  \* Physics.acceleration
     theta |-> theta,            \* Physics.wander_theta
     speed |-> speed,            \* MovementSpeed.value
     force |-> 0,                \* HareBehavior / WolfBehavior / Behavior .force
     hunger_time |-> 0,          \* WolfBehavior.hunger_time
     flee_time |-> 0,            \* HareBehavior.flee_time
     shot_at |-> 0,              \* BulletDuration.shot_at
     gid |-> 0,                  \* GroupID.value
     init_at |-> 0,              \* history: when wolf_starve set the hunger clock
     fed_at |-> 0]               \* history: last feeding before the deadline

NoEnt == Ent("none", 0, 0, 0, 0)

IsThreat(e) == e.kind \in {"hare", "wolf", "player"}
IsPrey(e) == e.kind \in {"hare", "deer", "player"}

Ids(kind) == {i \in DOMAIN world : world[i].kind = kind}

\* Transform == Transform (scale is the same for every sprite)
TransformEq(a, b) == FEq(a.pos, b.pos) /\ FEq(a.rot, b.rot)

\* bevy::sprite::collide_aabb::collide for two boxes centred on the axis
\* (a_pos.x = b_pos.x); sizes are <<width, height>>, coordinates are doubled
\* to keep the half sizes whole.  "none" is None.
collide(a_pos, a_size, b_pos, b_size) ==
    IF IsNaN(a_pos) \/ IsNaN(b_pos) THEN "none"
    ELSE LET a_min == 2 * a_pos - a_size[2]
             a_max == 2 * a_pos + a_size[2]
             b_min == 2 * b_pos - b_size[2]
             b_max == 2 * b_pos + b_size[2]
             x_collision == IF a_size[1] > b_size[1] THEN "left" ELSE "none"
             x_depth == IF a_size[1] > b_size[1] THEN a_size[1] - b_size[1] ELSE 0
             y_collision == IF a_min < b_min /\ a_max > b_min THEN "bottom"
                            ELSE IF a_min < b_max /\ a_max > b_max THEN "top"
                            ELSE "none"
             y_depth == IF a_min < b_min /\ a_max > b_min THEN b_min - a_min
                        ELSE IF a_min < b_max /\ a_max > b_max THEN a_max - b_max
                        ELSE 0
         IN  IF a_size[1] + b_size[1] > 0 /\ a_min < b_max /\ a_max > b_min
             THEN IF x_collision # "none" /\ y_collision # "none"
                  THEN IF y_depth < x_depth THEN y_collision ELSE x_collision
                  ELSE IF x_collision # "none" THEN x_collision
                  ELSE y_collision
             ELSE "none"

is_some(c) == c # "none"

\* Commands: a spawn carries the reserved id and the bundle, a despawn its
\* target; by / via / other record which check of which system issued it.
Spawn(id, ent, by) ==
    [op |-> "spawn", id |-> id, ent |-> ent, by |-> by, via |-> "", other |-> 0]

Despawn(id, by, via, other) ==
    [op |-> "despawn", id |-> id, ent |-> NoEnt, by |-> by, via |-> via,
     other |-> other]

\* ApplyCommands, were a second despawn of one entity a fault
ApplyCommands_strict(w, cs) ==
    LET gone == {c.id : c \in {d \in cs : d.op = "despawn"}}
        born == {c \in cs : c.op = "spawn"}
        ids == (DOMAIN w \ gone) \cup {c.id : c \in born}
    IN  [world |-> [i \in ids |->
                      IF i \in DOMAIN w THEN w[i]
                      ELSE (CHOOSE c \in born : c.id = i).ent],
         fault |-> \E c, d \in cs :
                     c # d /\ c.op = "despawn" /\ d.op = "despawn" /\ c.id = d.id]

\* World after the queued commands: despawning an entity that is already
\* gone does nothing.
ApplyCommands(w, cs) ==
    LET gone == {c.id : c \in {d \in cs : d.op = "despawn"}}
        born == {c \in cs : c.op = "spawn"}
        ids == (DOMAIN w \ gone) \cup {c.id : c \in born}
    IN  [world |-> [i \in ids |->
                      IF i \in DOMAIN w THEN w[i]
                      ELSE (CHOOSE c \in born : c.id = i).ent],
         fault |-> FALSE]

----------------------------------------------------------------------------
(* The schedule: labels and their before/after constraints *)

Registered ==
    << "player_move", "player_rotate", "player_check_intersection",
       "player_shoot", "bullet_fly", "player_die",
       "hare_spawn", "hare_flee", "hare_move", "hare_wander",
       "hare_evade_walls", "hare_die",
       "wolf_spawn", "wolf_wander", "wolf_evade_walls", "wolf_pursue",
       "wolf_move", "wolf_starve",
       "deer_spawn", "deer_wander", "deer_flee", "deer_alignment",
       "deer_cohesion", "deer_separation", "deer_evade_walls", "deer_evade",
       "deer_move", "deer_die" >>

Systems == {Registered[i] : i \in DOMAIN Registered}

\* <<a, b>>: a runs before b
Before ==
    { <<"player_shoot", "bullet_fly">>,
      <<"hare_flee", "hare_move">>, <<"hare_spawn", "hare_flee">>,
      <<"hare_flee", "hare_wander">>, <<"hare_wander", "hare_move">>,
      <<"hare_spawn", "hare_wander">>,
      <<"hare_evade_walls", "hare_flee">>, <<"hare_evade_walls", "hare_move">>,
      <<"hare_spawn", "hare_evade_walls">>,
      <<"wolf_spawn", "wolf_wander">>, <<"wolf_wander", "wolf_move">>,
      <<"wolf_evade_walls", "wolf_move">>, <<"wolf_pursue", "wolf_move">>,
      <<"wolf_spawn", "wolf_move">>, <<"wolf_spawn", "wolf_starve">>,
      <<"deer_spawn", "deer_wander">>, <<"deer_wander", "deer_move">>,
      <<"deer_flee", "deer_move">>, <<"deer_spawn", "deer_flee">>,
      <<"deer_alignment", "deer_move">>, <<"deer_cohesion", "deer_move">>,
      <<"deer_separation", "deer_move">>, <<"deer_evade_walls", "deer_move">>,
      <<"deer_evade", "deer_move">>, <<"deer_spawn", "deer_move">> }

Preds == [s \in Systems |-> {p \in Systems : <<p, s>> \in Before}]

Index == [s \in Systems |-> CHOOSE i \in DOMAIN Registered : Registered[i] = s]

Ready(s) == s \notin done /\ Preds[s] \subseteq done

\* The executor may start any ready system.  The systems in free are taken
\* at every point the labels allow; the others in registration order.
Turn(s) ==
    /\ ~panicked
    /\ Ready(s)
    /\ \/ s \in free
       \/ \A r \in Systems \ (free \cup done) : Ready(r) => Index[s] <= Index[r]

Ran(s) == /\ done' = done \cup {s}
          /\ last' = s

\* for j in k ..= n, ascending: if j is in items, acc = Body(acc, j).  The
\* accumulator and the index are bound to their values once per iteration.
RECURSIVE ForEach(_, _, _, _, _)
ForEach(Body(_, _), acc, items, k, n) ==
    IF k > n THEN acc
    ELSE CHOOSE r \in {ForEach(Body, IF j \in items THEN Body(x, j) ELSE x,
                               items, j + 1, n) : x \in {acc}, j \in {k}} : TRUE

\* a query loop: the entities in ents, in the order the query yields them
Query(Body(_, _), acc, ents) == ForEach(Body, acc, ents, 1, nextId - 1)

Size(n) == <<W(n), W(n)>>

\* Walls (main.rs setup), as pairs of points <<x, y>>
Walls ==
    LET w == FieldWidth \div 2
        h == FieldHeight \div 2
    IN  << << <<w, h>>, <<w, -h>> >>,
           << <<-w, -h>>, <<w, -h>> >>,
           << <<-w, h>>, <<-w, -h>> >>,
           << <<-w, h>>, <<w, h>> >> >>

----------------------------------------------------------------------------
(* Steps shared by the three species (the source repeats them per species) *)

\* the body of the loop of hare_move / wolf_move / deer_move
Integrate(e) ==
    LET acceleration == FAdd(e.acc, e.force)
        velocity == limit(FAdd(e.vel, acceleration), TimeStep(e.speed))
    IN  [e EXCEPT !.acc = FMul(acceleration, 0),
                  !.vel = velocity,
                  !.pos = FAdd(e.pos, velocity),
                  !.force = FMul(e.force, 0),
                  !.rot = FSub(Atan2(velocity), 1)]

\* the body of the loop of hare_wander / wolf_wander / deer_wander
Wander(e, displacement) ==
    LET force == wander(e.pos, e.vel, W(WanderRadius), W(WanderDistance),
                        e.theta, W(WanderMaxForce))
    IN  [e EXCEPT !.force = FAdd(e.force, FMul(force, WanderWeight)),
                  !.theta = (e.theta + displacement) % 4]

\* the body of the loop over the walls of hare_evade_walls / wolf_evade_walls /
\* deer_evade_walls
EvadeWall(e, k) ==
    LET int == line_line_intersection(Walls[k][1], Walls[k][2],
                   <<0, e.pos>>, <<0, FAdd(e.pos, e.vel)>>)
        force == flee(e.pos, e.vel, int.y, TimeStep(e.speed))
    IN  IF int.ok /\ ~FGt(dist(e.pos, int.y), W(40))
        THEN [e EXCEPT !.force = FAdd(e.force, FMul(force, EvadeWallsWeight))]
        ELSE e

EvadeWalls(e) == ForEach(EvadeWall, e, DOMAIN Walls, 1, Len(Walls))

\* Eater, were the predator loop to go on after a hit (no break): the last
\* overlapping wolf's clock is the one written last
Eater_last(pos, size) ==
    LET hit == {w \in Ids("wolf") :
                  is_some(collide(pos, size, world[w].pos, Size(SpriteSize)))}
    IN  IF hit = {} THEN 0 ELSE CHOOSE w \in hit : \A v \in hit : w >= v

\* the first wolf the predator loop of a *_die system finds on the prey
Eater(pos, size) ==
    LET hit == {w \in Ids("wolf") :
                  is_some(collide(pos, size, world[w].pos, Size(SpriteSize)))}
    IN  IF hit = {} THEN 0 ELSE CHOOSE w \in hit : \A v \in hit : w <= v

\* Feed, were the hunger clock left as it is
Feed_noreset(w, fed) ==
    [i \in DOMAIN w |->
        IF i \in fed
        THEN [w[i] EXCEPT !.fed_at = IF \E c \in cmds : c.op = "despawn" /\ c.id = i
                                     THEN 0 ELSE now]
        ELSE w[i]]

\* hunger_time = now for the wolves in fed.  fed_at (history) keeps the time
\* of the feeding unless a despawn of the wolf is already queued.
Feed(w, fed) ==
    [i \in DOMAIN w |->
        IF i \in fed
        THEN [w[i] EXCEPT !.hunger_time = now,
                          !.fed_at = IF \E c \in cmds : c.op = "despawn" /\ c.id = i
                                     THEN 0 ELSE now]
        ELSE w[i]]

\* Die, were the projectile loop to skip a prey the predator loop removed
Die_exclusive(kind, by) ==
    LET prey == Ids(kind)
        eats == {<<p, Eater(world[p].pos, Size(SpriteSize))>> : p \in prey}
        eaten == {pw \in eats : pw[2] # 0}
        shot == {pb \in (prey \ {pw[1] : pw \in eaten}) \X Ids("bullet") :
                   is_some(collide(world[pb[1]].pos, Size(SpriteSize),
                                   world[pb[2]].pos, Size(BulletSize)))}
    IN  /\ cmds' = cmds
             \cup {Despawn(pw[1], by, "wolf", pw[2]) : pw \in eaten}
             \cup {Despawn(pb[1], by, "bullet", pb[2]) : pb \in shot}
             \cup {Despawn(pb[2], by, "bullet", pb[1]) : pb \in shot}
        /\ world' = Feed(world, {pw[2] : pw \in eaten})

\* the two loops of hare_die / deer_die over the prey of one kind
Die(kind, by) ==
    LET prey == Ids(kind)
        eats == {<<p, Eater(world[p].pos, Size(SpriteSize))>> : p \in prey}
        eaten == {pw \in eats : pw[2] # 0}
        shot == {pb \in prey \X Ids("bullet") :
                   is_some(collide(world[pb[1]].pos, Size(SpriteSize),
                                   world[pb[2]].pos, Size(BulletSize)))}
    IN  /\ cmds' = cmds
             \cup {Despawn(pw[1], by, "wolf", pw[2]) : pw \in eaten}
             \cup {Despawn(pb[1], by, "bullet", pb[2]) : pb \in shot}
             \cup {Despawn(pb[2], by, "bullet", pb[1]) : pb \in shot}
        /\ world' = Feed(world, {pw[2] : pw \in eaten})

Frame == <<now, nextId, applied, free, panicked, settings, call>>

----------------------------------------------------------------------------
(* hare.rs *)

NewHare(y) == Ent("hare", y, -W(2), 1, HareMovementSpeed)

\* hare_spawn, were the counter not compared with max_number
hare_spawn_unbounded ==
    /\ Turn("hare_spawn")
    /\ Ran("hare_spawn")
    /\ \E y \in HareSpawnYs :
         /\ cmds' = cmds \cup {Spawn(nextId, NewHare(y), "hare_spawn")}
         /\ nextId' = nextId + 1
         /\ activeHares' = activeHares + 1
    /\ UNCHANGED <<world, now, activeWolves, deerGroups, applied, free, panicked, settings, call>>

\* hare_spawn, were the counter compared with <= for <
hare_spawn_inclusive ==
    /\ Turn("hare_spawn")
    /\ Ran("hare_spawn")
    /\ IF activeHares <= settings.hare_max_number
       THEN \E y \in HareSpawnYs :
              /\ cmds' = cmds \cup {Spawn(nextId, NewHare(y), "hare_spawn")}
              /\ nextId' = nextId + 1
              /\ activeHares' = activeHares + 1
       ELSE UNCHANGED <<cmds, nextId, activeHares>>
    /\ UNCHANGED <<world, now, activeWolves, deerGroups, applied, free, panicked, settings, call>>

hare_spawn ==
    /\ Turn("hare_spawn")
    /\ Ran("hare_spawn")
    /\ IF activeHares < settings.hare_max_number
       THEN \E y \in HareSpawnYs :
              /\ cmds' = cmds \cup {Spawn(nextId, NewHare(y), "hare_spawn")}
              /\ nextId' = nextId + 1
              /\ activeHares' = activeHares + 1
       ELSE UNCHANGED <<cmds, nextId, activeHares>>
    /\ UNCHANGED <<world, now, activeWolves, deerGroups, applied, free, panicked, settings, call>>

hare_move ==
    /\ Turn("hare_move")
    /\ Ran("hare_move")
    /\ IF activeHares < settings.hare_max_number
       THEN UNCHANGED world
       ELSE world' = [i \in DOMAIN world |->
                        IF world[i].kind = "hare" THEN Integrate(world[i])
                        ELSE world[i]]
    /\ UNCHANGED <<cmds, activeHares, activeWolves, deerGroups, Frame>>

\* displacements[count] is out of range when more than max_number hares live
hare_wander ==
    /\ Turn("hare_wander")
    /\ Ran("hare_wander")
    /\ IF activeHares < settings.hare_max_number
       THEN UNCHANGED <<world, panicked>>
       ELSE IF Cardinality(Ids("hare")) > settings.hare_max_number
       THEN /\ panicked' = TRUE
            /\ UNCHANGED world
       ELSE /\ \E displacements \in [Ids("hare") -> Displacements] :
                 world' = [i \in DOMAIN world |->
                             IF world[i].kind = "hare"
                             THEN Wander(world[i], displacements[i])
                             ELSE world[i]]
            /\ UNCHANGED panicked
    /\ UNCHANGED <<cmds, activeHares, activeWolves, deerGroups, now, nextId,
                   applied, free, settings, call>>

\* HareFlee, were the boost added to the current speed (+= 50 for = base + 50)
HareFlee_additive(e, hare_transform, t) ==
    LET threat == world[t]
        calm == IF FGe(now, e.flee_time + MaxFleeTime)
                THEN [e EXCEPT !.flee_time = 0, !.speed = HareMovementSpeed]
                ELSE e
        ds == dist(e.pos, threat.pos)
        speed == calm.speed + 50
        force == flee(e.pos, e.vel, threat.pos, TimeStep(speed))
    IN  IF TransformEq(hare_transform, threat) THEN e
        ELSE IF FLt(ds, W(100))
        THEN [calm EXCEPT !.speed = speed,
                          !.flee_time = now,
                          !.force = FAdd(calm.force, FMul(force, FleeWeight))]
        ELSE calm

\* the body of the loop of hare_flee over the threats, for one hare
HareFlee(e, hare_transform, t) ==
    LET threat == world[t]
        calm == IF FGe(now, e.flee_time + MaxFleeTime)
                THEN [e EXCEPT !.flee_time = 0, !.speed = HareMovementSpeed]
                ELSE e
        ds == dist(e.pos, threat.pos)
        speed == HareMovementSpeed + 50
        force == flee(e.pos, e.vel, threat.pos, TimeStep(speed))
    IN  IF TransformEq(hare_transform, threat) THEN e
        ELSE IF FLt(ds, W(100))
        THEN [calm EXCEPT !.speed = speed,
                          !.flee_time = now,
                          !.force = FAdd(calm.force, FMul(force, FleeWeight))]
        ELSE calm

hare_flee ==
    /\ Turn("hare_flee")
    /\ Ran("hare_flee")
    /\ IF activeHares < settings.hare_max_number
       THEN UNCHANGED world
       ELSE world' = [i \in DOMAIN world |->
                        IF world[i].kind = "hare"
                        THEN Query(LAMBDA e, t : HareFlee(e, world[i], t), world[i],
                                   {t \in DOMAIN world : IsThreat(world[t])})
                        ELSE world[i]]
    /\ UNCHANGED <<cmds, activeHares, activeWolves, deerGroups, Frame>>

hare_evade_walls ==
    /\ Turn("hare_evade_walls")
    /\ Ran("hare_evade_walls")
    /\ IF activeHares < settings.hare_max_number
       THEN UNCHANGED world
       ELSE world' = [i \in DOMAIN world |->
                        IF world[i].kind = "hare" THEN EvadeWalls(world[i])
                        ELSE world[i]]
    /\ UNCHANGED <<cmds, activeHares, activeWolves, deerGroups, Frame>>

hare_die ==
    /\ Turn("hare_die")
    /\ Ran("hare_die")
    /\ Die("hare", "hare_die")
    /\ UNCHANGED <<activeHares, activeWolves, deerGroups, Frame>>

----------------------------------------------------------------------------
(* wolf.rs *)

NewWolf(y) == Ent("wolf", y, -W(2), 1, WolfMovementSpeed)

wolf_spawn ==
    /\ Turn("wolf_spawn")
    /\ Ran("wolf_spawn")
    /\ IF activeWolves < settings.wolf_max_number
       THEN \E y \in WolfSpawnYs :
              /\ cmds' = cmds \cup {Spawn(nextId, NewWolf(y), "wolf_spawn")}
              /\ nextId' = nextId + 1
              /\ activeWolves' = activeWolves + 1
       ELSE UNCHANGED <<cmds, nextId, activeWolves>>
    /\ UNCHANGED <<world, now, activeHares, deerGroups, applied, free, panicked, settings, call>>

wolf_move ==
    /\ Turn("wolf_move")
    /\ Ran("wolf_move")
    /\ IF activeWolves < settings.wolf_max_number
       THEN UNCHANGED world
       ELSE world' = [i \in DOMAIN world |->
                        IF world[i].kind = "wolf" THEN Integrate(world[i])
                        ELSE world[i]]
    /\ UNCHANGED <<cmds, activeHares, activeWolves, deerGroups, Frame>>

wolf_wander ==
    /\ Turn("wolf_wander")
    /\ Ran("wolf_wander")
    /\ IF activeWolves < settings.wolf_max_number
       THEN UNCHANGED <<world, panicked>>
       ELSE IF Cardinality(Ids("wolf")) > settings.wolf_max_number
       THEN /\ panicked' = TRUE
            /\ UNCHANGED world
       ELSE /\ \E displacements \in [Ids("wolf") -> Displacements] :
                 world' = [i \in DOMAIN world |->
                             IF world[i].kind = "wolf"
                             THEN Wander(world[i], displacements[i])
                             ELSE world[i]]
            /\ UNCHANGED panicked
    /\ UNCHANGED <<cmds, activeHares, activeWolves, deerGroups, now, nextId,
                   applied, free, settings, call>>

wolf_evade_walls ==
    /\ Turn("wolf_evade_walls")
    /\ Ran("wolf_evade_walls")
    /\ IF activeWolves < settings.wolf_max_number
       THEN UNCHANGED world
       ELSE world' = [i \in DOMAIN world |->
                        IF world[i].kind = "wolf" THEN EvadeWalls(world[i])
                        ELSE world[i]]
    /\ UNCHANGED <<cmds, activeHares, activeWolves, deerGroups, Frame>>

\* the body of the loop of wolf_pursue over the prey, for one wolf
WolfPursue(e, t) ==
    LET p == world[t]
        ds == dist(e.pos, p.pos)
        force == pursue(e.pos, e.vel, p.pos, p.vel, TimeStep(e.speed))
    IN  [e EXCEPT !.force = FAdd(e.force, IF FGt(ds, W(100)) THEN 0
                                          ELSE FMul(force, PursueWeight))]

wolf_pursue ==
    /\ Turn("wolf_pursue")
    /\ Ran("wolf_pursue")
    /\ IF activeWolves < settings.wolf_max_number
       THEN UNCHANGED world
       ELSE world' = [i \in DOMAIN world |->
                        IF world[i].kind = "wolf"
                        THEN Query(WolfPursue, world[i],
                                   {t \in DOMAIN world : IsPrey(world[t])})
                        ELSE world[i]]
    /\ UNCHANGED <<cmds, activeHares, activeWolves, deerGroups, Frame>>

\* Starve, were the unset clock left unset
Starve_unset(e) == e

\* the body of the loop of wolf_starve; init_at (history) is the time the
\* unset clock was set
Starve(e) ==
    IF e.hunger_time = 0
    THEN [e EXCEPT !.hunger_time = now, !.init_at = now]
    ELSE e

\* wolf_starve, were the deadline itself already fatal (>= for >)
wolf_starve_inclusive ==
    /\ Turn("wolf_starve")
    /\ Ran("wolf_starve")
    /\ IF activeWolves < settings.wolf_max_number
       THEN UNCHANGED <<world, cmds>>
       ELSE /\ world' = [i \in DOMAIN world |->
                           IF world[i].kind = "wolf" THEN Starve(world[i])
                           ELSE world[i]]
            /\ cmds' = cmds \cup
                 {Despawn(i, "wolf_starve", "hunger", 0) :
                    i \in {w \in Ids("wolf") :
                             FGe(now, Starve(world[w]).hunger_time + MaxHungerTime)}}
    /\ UNCHANGED <<activeHares, activeWolves, deerGroups, Frame>>

\* wolf_starve, were the counter lowered for every wolf that starves
wolf_starve_counting ==
    /\ Turn("wolf_starve")
    /\ Ran("wolf_starve")
    /\ IF activeWolves < settings.wolf_max_number
       THEN UNCHANGED <<world, cmds, activeWolves>>
       ELSE LET starved == {w \in Ids("wolf") :
                              FGt(now, Starve(world[w]).hunger_time + MaxHungerTime)}
            IN  /\ world' = [i \in DOMAIN world |->
                               IF world[i].kind = "wolf" THEN Starve(world[i])
                               ELSE world[i]]
                /\ cmds' = cmds \cup
                     {Despawn(i, "wolf_starve", "hunger", 0) : i \in starved}
                /\ activeWolves' = activeWolves - Cardinality(starved)
    /\ UNCHANGED <<activeHares, deerGroups, Frame>>

wolf_starve ==
    /\ Turn("wolf_starve")
    /\ Ran("wolf_starve")
    /\ IF activeWolves < settings.wolf_max_number
       THEN UNCHANGED <<world, cmds>>
       ELSE /\ world' = [i \in DOMAIN world |->
                           IF world[i].kind = "wolf" THEN Starve(world[i])
                           ELSE world[i]]
            /\ cmds' = cmds \cup
                 {Despawn(i, "wolf_starve", "hunger", 0) :
                    i \in {w \in Ids("wolf") :
                             FGt(now, Starve(world[w]).hunger_time + MaxHungerTime)}}
    /\ UNCHANGED <<activeHares, activeWolves, deerGroups, Frame>>

----------------------------------------------------------------------------
(* player.rs *)

PlayerMovementSpeed == 120

\* player_spawn (startup stage): PlayerData.transform is Transform::default()
NewPlayer == Ent("player", 0, -W(2), 0, PlayerMovementSpeed)

\* Transform::local_y on the axis
LocalY(rot) == IF rot = 0 THEN 1 ELSE IF rot = 2 THEN -1 ELSE 0

NewBullet(transform) ==
    [Ent("bullet", transform.pos,
         LocalY(transform.rot) * TimeStep(BulletMovementSpeed), 0, 0)
       EXCEPT !.rot = transform.rot, !.shot_at = now]

\* dir.normalize() is discarded; dir.y is -1, 0 or 1
player_move ==
    /\ Turn("player_move")
    /\ Ran("player_move")
    /\ \E dir \in KeyDirs :
         world' = [i \in DOMAIN world |->
                     IF world[i].kind = "player"
                     THEN LET velocity == dir * TimeStep(world[i].speed)
                          IN  [world[i] EXCEPT !.vel = velocity,
                                               !.pos = FAdd(world[i].pos, velocity)]
                     ELSE world[i]]
    /\ UNCHANGED <<cmds, activeHares, activeWolves, deerGroups, Frame>>

player_rotate ==
    /\ Turn("player_rotate")
    /\ Ran("player_rotate")
    /\ \E mouse_position \in MouseYs :
         world' = [i \in DOMAIN world |->
                     IF world[i].kind = "player"
                     THEN [world[i] EXCEPT !.rot =
                             FAdd(Atan2(FSub(world[i].pos, mouse_position)), 1)]
                     ELSE world[i]]
    /\ UNCHANGED <<cmds, activeHares, activeWolves, deerGroups, Frame>>

player_check_intersection ==
    /\ Turn("player_check_intersection")
    /\ Ran("player_check_intersection")
    /\ world' = [i \in DOMAIN world |->
                   IF world[i].kind = "player"
                   THEN LET collision == collide(world[i].pos, Size(SpriteSize),
                                                 0, <<FieldWidth, FieldHeight>>)
                        IN  IF collision = "top"
                            THEN [world[i] EXCEPT !.pos = world[i].pos - W(1)]
                            ELSE IF collision = "bottom"
                            THEN [world[i] EXCEPT !.pos = world[i].pos + W(1)]
                            ELSE world[i]
                   ELSE world[i]]
    /\ UNCHANGED <<cmds, activeHares, activeWolves, deerGroups, Frame>>

\* mouse.just_released(MouseButton::Left) is an input
player_shoot ==
    /\ Turn("player_shoot")
    /\ Ran("player_shoot")
    /\ \/ UNCHANGED <<cmds, nextId>>
       \/ /\ now \in ShotTimes
          /\ \E p \in Ids("player") :
               cmds' = cmds \cup {Spawn(nextId, NewBullet(world[p]), "player_shoot")}
          /\ nextId' = nextId + 1
    /\ UNCHANGED <<world, now, activeHares, activeWolves, deerGroups, applied,
                   free, panicked, settings, call>>

bullet_fly ==
    /\ Turn("bullet_fly")
    /\ Ran("bullet_fly")
    /\ world' = [i \in DOMAIN world |->
                   IF world[i].kind = "bullet"
                      /\ FLt(now, world[i].shot_at + BulletMaxDuration)
                   THEN [world[i] EXCEPT !.pos = FAdd(world[i].pos, world[i].vel)]
                   ELSE world[i]]
    /\ cmds' = cmds \cup
         {Despawn(b, "bullet_fly", "timeout", 0) :
            b \in {i \in Ids("bullet") :
                     ~FLt(now, world[i].shot_at + BulletMaxDuration)}}
    /\ UNCHANGED <<activeHares, activeWolves, deerGroups, Frame>>

player_die ==
    /\ Turn("player_die")
    /\ Ran("player_die")
    /\ LET eaten == {pw \in {<<p, Eater(world[p].pos, Size(SpriteSize))>> :
                               p \in Ids("player")} : pw[2] # 0}
       IN  /\ cmds' = cmds \cup {Despawn(pw[1], "player_die", "wolf", pw[2]) :
                                   pw \in eaten}
           /\ world' = Feed(world, {pw[2] : pw \in eaten})
    /\ UNCHANGED <<activeHares, activeWolves, deerGroups, Frame>>

----------------------------------------------------------------------------
(* deer.rs *)

NewDeer(y, id) == [Ent("deer", y, -W(2), 1, DeerMovementSpeed) EXCEPT !.gid = id]

DeerGateClosed == Len(deerGroups) < settings.deer_group_number

\* rng.gen() for a group id: an id drawn before, or one new id (ids are only
\* compared for equality)
FreshIds == {id \in GroupIds : id <= Len(deerGroups) + 1}

\* rng.gen_range(3..settings.max_number) panics on an empty range
deer_spawn ==
    /\ Turn("deer_spawn")
    /\ Ran("deer_spawn")
    /\ IF DeerGateClosed
       THEN IF DeerMaxNumber <= 3
            THEN /\ panicked' = TRUE
                 /\ UNCHANGED <<cmds, nextId, deerGroups>>
            ELSE \E y \in DeerSpawnYs, deer_count \in 3 .. (DeerMaxNumber - 1),
                    id \in FreshIds, offsets \in DeerOffsets :
                   /\ deerGroups' = Append(deerGroups, [id |-> id, count |-> deer_count])
                   /\ cmds' = cmds \cup
                        {Spawn(nextId + k - 1,
                               NewDeer(y + offsets[((k - 1) % Len(offsets)) + 1], id),
                               "deer_spawn") : k \in 1 .. deer_count}
                   /\ nextId' = nextId + deer_count
                   /\ UNCHANGED panicked
       ELSE UNCHANGED <<cmds, nextId, deerGroups, panicked>>
    /\ UNCHANGED <<world, now, activeHares, activeWolves, applied, free, settings, call>>

deer_move ==
    /\ Turn("deer_move")
    /\ Ran("deer_move")
    /\ IF DeerGateClosed
       THEN UNCHANGED world
       ELSE world' = [i \in DOMAIN world |->
                        IF world[i].kind = "deer" THEN Integrate(world[i])
                        ELSE world[i]]
    /\ UNCHANGED <<cmds, activeHares, activeWolves, deerGroups, Frame>>

\* NeighboursIn, were the GroupID values not compared
NeighboursIn_anygroup(w, i, perception_radius) ==
    {o \in DOMAIN w :
       /\ w[o].kind = "deer"
       /\ ~TransformEq(w[o], w[i])
       /\ FLt(dist(w[i].pos, w[o].pos), perception_radius)}

\* the deer a flocking rule counts for deer i in the world w: the others
\* of its group (another Transform) within the perception radius
NeighboursIn(w, i, perception_radius) ==
    {o \in DOMAIN w :
       /\ w[o].kind = "deer"
       /\ w[i].gid = w[o].gid
       /\ ~TransformEq(w[o], w[i])
       /\ FLt(dist(w[i].pos, w[o].pos), perception_radius)}

Neighbours(i, perception_radius) == NeighboursIn(world, i, perception_radius)

\* steer /= total leaves the direction of steer, which is all set_mag reads
AlignmentIn(w, i) ==
    LET e == w[i]
        others == NeighboursIn(w, i, W(PerceptionRadius))
        sum == Query(LAMBDA steer, o : FAdd(steer, w[o].vel), 0, others)
        steer == limit(FSub(set_mag(sum, W(e.speed)), e.vel), W(FlockingMaxForce))
    IN  IF others # {} THEN [e EXCEPT !.force = FAdd(e.force, steer)] ELSE e

Alignment(i) == AlignmentIn(world, i)

\* steer / total - translation has the direction of steer - total * translation
CohesionIn(w, i) ==
    LET e == w[i]
        others == NeighboursIn(w, i, W(PerceptionRadius))
        sum == Query(LAMBDA steer, o : FAdd(steer, w[o].pos), 0, others)
        centre == FSub(sum, FMul(Cardinality(others), e.pos))
        steer == limit(FSub(set_mag(centre, W(e.speed)), e.vel), W(FlockingMaxForce))
    IN  IF others # {} THEN [e EXCEPT !.force = FAdd(e.force, steer)] ELSE e

Cohesion(i) == CohesionIn(world, i)

\* diff / (d * d) is 1 / d away from the other deer and 0 / 0 = NaN at d = 0;
\* the quotient is kept to 20 binary digits
SeparationSumIn(w, steer, i, o) ==
    LET d == dist(w[i].pos, w[o].pos)
        diff == FSub(w[i].pos, w[o].pos)
    IN  IF IsNaN(d) \/ d = 0 THEN NaN
        ELSE FAdd(steer, Sign(diff) * ((2 ^ 20) \div d))

SeparationSum(steer, i, o) == SeparationSumIn(world, steer, i, o)

SeparationIn(w, i) ==
    LET e == w[i]
        others == NeighboursIn(w, i, W(PerceptionRadius))
        sum == Query(LAMBDA steer, o : SeparationSumIn(w, steer, i, o), 0, others)
        steer == limit(FSub(set_mag(sum, W(e.speed)), e.vel), W(FlockingMaxForce))
    IN  IF others # {} THEN [e EXCEPT !.force = FAdd(e.force, steer)] ELSE e

Separation(i) == SeparationIn(world, i)

deer_alignment ==
    /\ Turn("deer_alignment")
    /\ Ran("deer_alignment")
    /\ IF DeerGateClosed
       THEN UNCHANGED world
       ELSE world' = [i \in DOMAIN world |->
                        IF world[i].kind = "deer" THEN Alignment(i) ELSE world[i]]
    /\ UNCHANGED <<cmds, activeHares, activeWolves, deerGroups, Frame>>

deer_cohesion ==
    /\ Turn("deer_cohesion")
    /\ Ran("deer_cohesion")
    /\ IF DeerGateClosed
       THEN UNCHANGED world
       ELSE world' = [i \in DOMAIN world |->
                        IF world[i].kind = "deer" THEN Cohesion(i) ELSE world[i]]
    /\ UNCHANGED <<cmds, activeHares, activeWolves, deerGroups, Frame>>

\* deer_separation, were the group count not compared with group_number
deer_separation_ungated ==
    /\ Turn("deer_separation")
    /\ Ran("deer_separation")
    /\ world' = [i \in DOMAIN world |->
                   IF world[i].kind = "deer" THEN Separation(i) ELSE world[i]]
    /\ UNCHANGED <<cmds, activeHares, activeWolves, deerGroups, Frame>>

deer_separation ==
    /\ Turn("deer_separation")
    /\ Ran("deer_separation")
    /\ IF DeerGateClosed
       THEN UNCHANGED world
       ELSE world' = [i \in DOMAIN world |->
                        IF world[i].kind = "deer" THEN Separation(i) ELSE world[i]]
    /\ UNCHANGED <<cmds, activeHares, activeWolves, deerGroups, Frame>>

\* the body of the loop of deer_wander over the groups; displacements[count]
\* is out of range when more deer carry group.id than group.count
DeerWander(r, displacements, g) ==
    LET group == deerGroups[g]
        w == r.world
        members == {i \in DOMAIN w : w[i].kind = "deer" /\ w[i].gid = group.id}
    IN  IF r.panic THEN r
        ELSE IF Cardinality(members) > group.count
        THEN [world |-> w, panic |-> TRUE]
        ELSE [world |-> [i \in DOMAIN w |->
                           IF i \in members THEN Wander(w[i], displacements[i])
                           ELSE w[i]],
              panic |-> FALSE]

deer_wander ==
    /\ Turn("deer_wander")
    /\ Ran("deer_wander")
    /\ IF DeerGateClosed
       THEN UNCHANGED <<world, panicked>>
       ELSE \E displacements \in [Ids("deer") -> Displacements] :
              LET r == ForEach(LAMBDA acc, g : DeerWander(acc, displacements, g),
                               [world |-> world, panic |-> FALSE],
                               DOMAIN deerGroups, 1, Len(deerGroups))
              IN  /\ panicked' = r.panic
                  /\ world' = IF r.panic THEN world ELSE r.world
    /\ UNCHANGED <<cmds, activeHares, activeWolves, deerGroups, now, nextId,
                   applied, free, settings, call>>

deer_evade_walls ==
    /\ Turn("deer_evade_walls")
    /\ Ran("deer_evade_walls")
    /\ IF DeerGateClosed
       THEN UNCHANGED world
       ELSE world' = [i \in DOMAIN world |->
                        IF world[i].kind = "deer" THEN EvadeWalls(world[i])
                        ELSE world[i]]
    /\ UNCHANGED <<cmds, activeHares, activeWolves, deerGroups, Frame>>

\* the body of the loop of deer_flee over the threats that are not hares
DeerFlee(e, deer_transform, t) ==
    LET threat == world[t]
        ds == dist(e.pos, threat.pos)
        force == flee(e.pos, e.vel, threat.pos, TimeStep(e.speed))
    IN  IF ~TransformEq(deer_transform, threat) /\ FLt(ds, W(100))
        THEN [e EXCEPT !.force = FAdd(e.force, FMul(force, FleeWeight))]
        ELSE e

\* deer_flee, were the hares left in the threat query (no Without<Hare>)
deer_flee_anythreat ==
    /\ Turn("deer_flee")
    /\ Ran("deer_flee")
    /\ IF DeerGateClosed
       THEN UNCHANGED world
       ELSE world' = [i \in DOMAIN world |->
                        IF world[i].kind = "deer"
                        THEN Query(LAMBDA e, t : DeerFlee(e, world[i], t), world[i],
                                   {t \in DOMAIN world : IsThreat(world[t])})
                        ELSE world[i]]
    /\ UNCHANGED <<cmds, activeHares, activeWolves, deerGroups, Frame>>

deer_flee ==
    /\ Turn("deer_flee")
    /\ Ran("deer_flee")
    /\ IF DeerGateClosed
       THEN UNCHANGED world
       ELSE world' = [i \in DOMAIN world |->
                        IF world[i].kind = "deer"
                        THEN Query(LAMBDA e, t : DeerFlee(e, world[i], t), world[i],
                                   {t \in DOMAIN world :
                                      IsThreat(world[t]) /\ world[t].kind # "hare"})
                        ELSE world[i]]
    /\ UNCHANGED <<cmds, activeHares, activeWolves, deerGroups, Frame>>

\* the body of the loop of deer_evade over the wolves, for one deer
DeerEvade(e, t) ==
    LET wolf == world[t]
        ds == dist(e.pos, wolf.pos)
        force == evade(e.pos, e.vel, wolf.pos, wolf.vel, TimeStep(e.speed))
    IN  [e EXCEPT !.force = FAdd(e.force, IF FGt(ds, W(180)) THEN 0
                                          ELSE FMul(force, EvadeWeight))]

deer_evade ==
    /\ Turn("deer_evade")
    /\ Ran("deer_evade")
    /\ IF DeerGateClosed
       THEN UNCHANGED world
       ELSE world' = [i \in DOMAIN world |->
                        IF world[i].kind = "deer"
                        THEN Query(DeerEvade, world[i], Ids("wolf"))
                        ELSE world[i]]
    /\ UNCHANGED <<cmds, activeHares, activeWolves, deerGroups, Frame>>

deer_die ==
    /\ Turn("deer_die")
    /\ Ran("deer_die")
    /\ Die("deer", "deer_die")
    /\ UNCHANGED <<activeHares, activeWolves, deerGroups, Frame>>

----------------------------------------------------------------------------
(* The frame *)

\* The systems whose position in the order is explored, one set per run
FocusSets ==
    { {"deer_separation", "wolf_starve"},
      {"wolf_pursue", "hare_die"} }

\* End of the stage: the queued commands are applied, then the next frame
\* starts and Time is updated.
apply_commands ==
    /\ ~panicked
    /\ done = Systems
    /\ \E dt \in {1} \cup {f[2] : f \in {g \in LongFrames : g[1] = now}} :
         /\ now + dt <= MaxTime
         /\ now' = now + dt
    /\ world' = ApplyCommands(world, cmds).world
    /\ panicked' = ApplyCommands(world, cmds).fault
    /\ applied' = cmds
    /\ cmds' = {}
    /\ done' = {}
    /\ last' = "apply"
    /\ UNCHANGED <<activeHares, activeWolves, deerGroups, nextId, free, settings, call>>

Init ==
    /\ world = [i \in {1} |-> NewPlayer]
    /\ cmds = {}
    /\ done = {}
    /\ last = "startup"
    /\ now = 1
    /\ activeHares = 0
    /\ activeWolves = 0
    /\ deerGroups = <<>>
    /\ nextId = 2
    /\ applied = {}
    /\ free \in FocusSets
    /\ panicked = FALSE
    /\ settings = Configured
    /\ call = Idle

Next ==
    \/ player_move \/ player_rotate \/ player_check_intersection
    \/ player_shoot \/ bullet_fly \/ player_die
    \/ hare_spawn \/ hare_flee \/ hare_move \/ hare_wander
    \/ hare_evade_walls \/ hare_die
    \/ wolf_spawn \/ wolf_wander \/ wolf_evade_walls \/ wolf_pursue
    \/ wolf_move \/ wolf_starve
    \/ deer_spawn \/ deer_wander \/ deer_flee \/ deer_alignment
    \/ deer_cohesion \/ deer_separation \/ deer_evade_walls \/ deer_evade
    \/ deer_move \/ deer_die
    \/ apply_commands

Spec == Init /\ [][Next]_vars

\* A step of Next: a system that may start runs, or the stage ends.  The two
\* are enabled in the same states and every step of Next is a Progress step
\* that changes done.
Progress ==
    \/ \E s \in Systems : Turn(s) /\ done' = done \cup {s}
    \/ apply_commands

\* The app runs its schedule once per frame for as long as the process
\* lives: a step that can be taken is eventually taken.
FairSpec == Spec /\ WF_done(Progress)

----------------------------------------------------------------------------
(* The game configured with a population target of zero *)

\* every configuration in which hare max_number, wolf max_number or deer
\* group_number is 0 and the others are 0 or as configured
ZeroTargets ==
    [hare_max_number : {0, HareMaxNumber},
     wolf_max_number : {0, WolfMaxNumber},
     deer_group_number : {0, DeerGroupNumber}] \ {Configured}

ZeroInit ==
    /\ world = [i \in {1} |-> NewPlayer]
    /\ cmds = {}
    /\ done = {}
    /\ last = "startup"
    /\ now = 1
    /\ activeHares = 0
    /\ activeWolves = 0
    /\ deerGroups = <<>>
    /\ nextId = 2
    /\ applied = {}
    /\ free \in FocusSets
    /\ panicked = FALSE
    /\ settings \in ZeroTargets
    /\ call = Idle

ZeroSpec == ZeroInit /\ [][Next]_vars

----------------------------------------------------------------------------
(* The functions of utils.rs and steering.rs applied on their own *)

Call(fn, args) == [fn |-> fn, args |-> args, returned |-> FALSE, value |-> 0]

\* arguments: components and scalars, in sixths of a world unit
Components == {NaN} \cup (-8 .. 8)
Scalars == 0 .. 6
Positions == {-6, 0, 9}
Velocities == {NaN, -12, 0, 12}
Speeds == {0, 12, 18}
Thetas == {0, 1, 2, 3}

\* wall segments and the ends of an agent's segment, <<x, y>> in world units
WallSegments ==
    { << <<-10, 0>>, <<10, 0>> >>,
      << <<10, 10>>, <<10, -10>> >>,
      << <<-10, -10>>, <<10, 10>> >> }
AgentPoints ==
    {<<x, y>> : x \in {-5, 0, 5, 20}, y \in {-15, -5, 0, 5, 15}} \cup {<<NaN, 0>>}

Calls ==
    {Call("limit", <<v, m>>) : v \in Components, m \in Scalars}
    \cup {Call("set_mag", <<v, n>>) : v \in Components, n \in Scalars}
    \cup {Call("line_line_intersection", <<w[1], w[2], b1, b2>>) :
            w \in WallSegments, b1 \in AgentPoints, b2 \in AgentPoints}
    \cup {Call("seek", <<p, v, t, m>>) :
            p \in Positions, v \in Velocities, t \in Positions, m \in Speeds}
    \cup {Call("flee", <<p, v, t, m>>) :
            p \in Positions, v \in Velocities, t \in Positions, m \in Speeds}
    \cup {Call("wander", <<p, v, 6, 12, th, 6>>) :
            p \in Positions, v \in Velocities, th \in Thetas}
    \cup {Call("pursue", <<p, v, t, tv, m>>) :
            p \in Positions, v \in Velocities, t \in Positions,
            tv \in Velocities, m \in Speeds \ {0}}
    \cup {Call("evade", <<p, v, t, tv, m>>) :
            p \in Positions, v \in Velocities, t \in Positions,
            tv \in Velocities, m \in Speeds \ {0}}

Return(value) ==
    /\ ~call.returned
    /\ call' = [call EXCEPT !.returned = TRUE, !.value = value]
    /\ UNCHANGED <<world, cmds, done, last, now, activeHares, activeWolves,
                   deerGroups, nextId, applied, free, panicked, settings>>

call_limit ==
    /\ call.fn = "limit"
    /\ Return(limit(call.args[1], call.args[2]))

call_set_mag ==
    /\ call.fn = "set_mag"
    /\ Return(set_mag(call.args[1], call.args[2]))

call_line_line_intersection ==
    /\ call.fn = "line_line_intersection"
    /\ Return(line_line_intersection(call.args[1], call.args[2],
                                  call.args[3], call.args[4]))

call_seek ==
    /\ call.fn = "seek"
    /\ Return(seek(call.args[1], call.args[2], call.args[3], call.args[4]))

call_flee ==
    /\ call.fn = "flee"
    /\ Return(flee(call.args[1], call.args[2], call.args[3], call.args[4]))

call_wander ==
    /\ call.fn = "wander"
    /\ Return(wander(call.args[1], call.args[2], call.args[3],
                            call.args[4], call.args[5], call.args[6]))

call_pursue ==
    /\ call.fn = "pursue"
    /\ Return(pursue(call.args[1], call.args[2], call.args[3],
                            call.args[4], call.args[5]))

call_evade ==
    /\ call.fn = "evade"
    /\ Return(evade(call.args[1], call.args[2], call.args[3],
                          call.args[4], call.args[5]))

UtilsInit ==
    /\ world = <<>>
    /\ cmds = {}
    /\ done = {}
    /\ last = "startup"
    /\ now = 1
    /\ activeHares = 0
    /\ activeWolves = 0
    /\ deerGroups = <<>>
    /\ nextId = 1
    /\ applied = {}
    /\ free = {}
    /\ panicked = FALSE
    /\ settings = Configured
    /\ call \in Calls

UtilsNext ==
    \/ call_limit \/ call_set_mag \/ call_line_line_intersection
    \/ call_seek \/ call_flee \/ call_wander \/ call_pursue \/ call_evade

UtilsSpec == UtilsInit /\ [][UtilsNext]_vars

----------------------------------------------------------------------------
(* Properties *)

HareSteering == {"hare_flee", "hare_wander", "hare_evade_walls", "hare_move"}
WolfSteering == {"wolf_wander", "wolf_evade_walls", "wolf_pursue", "wolf_move"}
DeerSteering == {"deer_wander", "deer_flee", "deer_alignment", "deer_cohesion",
                 "deer_separation", "deer_evade_walls", "deer_evade", "deer_move"}

Motion(e) == <<e.force, e.vel, e.acc, e.theta, e.speed, e.pos>>

Still(kind) ==
    \A i \in Ids(kind) : i \in DOMAIN world' /\ Motion(world'[i]) = Motion(world[i])

\* C1: a steering system or the integrator of a species that runs while the
\* species' spawn counter is below its target changes no force, velocity,
\* acceleration, wander phase, speed or position of an agent of that species.
C1_GateNoOp ==
    [][ /\ (last' \in HareSteering /\ activeHares < HareMaxNumber) => Still("hare")
        /\ (last' \in WolfSteering /\ activeWolves < WolfMaxNumber) => Still("wolf")
        /\ (last' \in DeerSteering /\ DeerGateClosed) => Still("deer") ]_vars

\* one group of deer lives, the second is not spawned yet, and a flocking
\* rule has just run over deer that have neighbours
C1_Witness ==
    /\ last = "deer_separation"
    /\ Len(deerGroups) = 1
    /\ DeerGroupNumber = 2
    /\ \E i \in Ids("deer") : Neighbours(i, W(PerceptionRadius)) # {}

Spawned(by) == {c \in cmds' \ cmds : c.op = "spawn" /\ c.by = by}

\* C2: the hare and wolf counters never exceed max_number and the group list
\* never exceeds group_number; the live hares and wolves never exceed
\* max_number; one run of a spawn system creates at most one unit (a hare, a
\* wolf, a group of deer carrying one id) and raises its counter by as much.
C2_SpawnBounded ==
    /\ [](/\ activeHares <= HareMaxNumber
          /\ activeWolves <= WolfMaxNumber
          /\ Len(deerGroups) <= DeerGroupNumber
          /\ Cardinality(Ids("hare")) <= HareMaxNumber
          /\ Cardinality(Ids("wolf")) <= WolfMaxNumber)
    /\ [][ /\ last' = "hare_spawn" =>
                /\ activeHares' - activeHares \in {0, 1}
                /\ Cardinality(Spawned("hare_spawn")) = activeHares' - activeHares
                /\ \A c \in Spawned("hare_spawn") : c.ent.kind = "hare"
           /\ last' = "wolf_spawn" =>
                /\ activeWolves' - activeWolves \in {0, 1}
                /\ Cardinality(Spawned("wolf_spawn")) = activeWolves' - activeWolves
                /\ \A c \in Spawned("wolf_spawn") : c.ent.kind = "wolf"
           /\ (last' = "deer_spawn" /\ ~panicked') =>
                /\ Len(deerGroups') - Len(deerGroups) \in {0, 1}
                /\ Cardinality({c.ent.gid : c \in Spawned("deer_spawn")})
                     = Len(deerGroups') - Len(deerGroups)
                /\ \A c \in Spawned("deer_spawn") :
                     /\ c.ent.kind = "deer"
                     /\ c.ent.gid = deerGroups'[Len(deerGroups')].id
                     /\ Cardinality(Spawned("deer_spawn"))
                          = deerGroups'[Len(deerGroups')].count
           /\ last' \notin {"hare_spawn", "wolf_spawn", "deer_spawn"} =>
                /\ UNCHANGED <<activeHares, activeWolves, deerGroups>>
                /\ \A c \in cmds' \ cmds :
                     c.op = "spawn" => c.ent.kind = "bullet" ]_vars

\* hare_spawn has just run with the counter at max_number and every hare alive
C2_Witness ==
    /\ last = "hare_spawn"
    /\ activeHares = HareMaxNumber
    /\ Cardinality(Ids("hare")) = HareMaxNumber
    /\ ~\E c \in cmds : c.op = "spawn" /\ c.ent.kind = "hare"

WolfRemovals(cs) == {c \in cs : c.op = "despawn" /\ c.by = "wolf_starve"}

\* C4: with the wolf gate open, wolf_starve queues the removal of a wolf iff
\* the clock of the tick is strictly greater than the wolf's last-fed time
\* plus 5 (an unset last-fed time never is); no other system removes a wolf,
\* and a wolf leaves the world at the end of a tick iff wolf_starve queued it.
C4_StarveDeadline ==
    [][ /\ last' = "wolf_starve" =>
             \A w \in Ids("wolf") :
                (\E c \in WolfRemovals(cmds') : c.id = w)
                  <=> /\ activeWolves >= WolfMaxNumber
                      /\ world[w].hunger_time # 0
                      /\ now > world[w].hunger_time + MaxHungerTime
        /\ last' # "wolf_starve" =>
             \A c \in cmds' \ cmds :
                c.op = "despawn" => c.id \notin Ids("wolf")
        /\ last' = "apply" =>
             \A w \in Ids("wolf") :
                w \notin DOMAIN world' <=> \E c \in WolfRemovals(cmds) : c.id = w
      ]_vars

\* a wolf whose clock was set at t0 and that was never fed is alive at
\* t0 + 5 and its removal is queued at the first tick after it
C4_Witness ==
    /\ last = "wolf_starve"
    /\ \E c \in WolfRemovals(cmds) :
          /\ world[c.id].fed_at = 0
          /\ world[c.id].hunger_time = world[c.id].init_at
          /\ now > world[c.id].init_at + MaxHungerTime

\* a wolf still alive at exactly t0 + 5, after wolf_starve has run
C4_Alive ==
    /\ last = "wolf_starve"
    /\ \E w \in Ids("wolf") :
          /\ world[w].hunger_time # 0
          /\ now = world[w].hunger_time + MaxHungerTime
          /\ WolfRemovals(cmds) = {}

DieSystems == {"hare_die", "deer_die", "player_die"}

\* C5: a prey-death system that finds a wolf on a prey at clock time t sets
\* that wolf's last-fed time to t; a wolf fed at t while no removal of it was
\* queued leaves the world in no tick with time <= t + 5.
C5_FedSurvives ==
    [][ /\ last' \in DieSystems =>
             \A c \in cmds' \ cmds :
                c.via = "wolf" => /\ c.op = "despawn"
                                  /\ IsPrey(world[c.id])
                                  /\ world'[c.other].hunger_time = now
        /\ last' = "apply" =>
             \A w \in Ids("wolf") :
                (world[w].fed_at # 0 /\ now <= world[w].fed_at + MaxHungerTime)
                   => w \in DOMAIN world'
      ]_vars

\* a wolf whose clock was set at t0, fed later and before t0 + 5, alive after
\* t0 + 5
C5_Witness ==
    \E w \in Ids("wolf") :
       /\ world[w].init_at # 0
       /\ world[w].fed_at > world[w].init_at
       /\ world[w].fed_at < world[w].init_at + MaxHungerTime
       /\ world[w].hunger_time = world[w].fed_at
       /\ now > world[w].init_at + MaxHungerTime

\* C6: the first time wolf_starve sees a wolf whose last-fed time is unset (0)
\* it sets it to the clock of the tick and does not remove the wolf in that
\* tick; wolf_starve removes no wolf earlier than 5 seconds after that.
C6_NoInstantStarve ==
    /\ [][ (last' = "wolf_starve" /\ activeWolves >= WolfMaxNumber) =>
              \A w \in Ids("wolf") :
                 world[w].hunger_time = 0 =>
                    /\ world'[w].hunger_time = now
                    /\ ~\E c \in WolfRemovals(cmds') : c.id = w ]_vars
    /\ [](\A c \in WolfRemovals(cmds) :
             world[c.id].init_at # 0 => now > world[c.id].init_at + MaxHungerTime)

\* wolf_starve has just set the clock of a wolf, more than 5 seconds after
\* the start
C6_Witness ==
    /\ last = "wolf_starve"
    /\ \E w \in Ids("wolf") :
          /\ world[w].init_at = now
          /\ world[w].hunger_time = now
          /\ now > MaxHungerTime
          /\ WolfRemovals(cmds) = {}

\* C7: at the end of every tick every live hare, wolf and deer has a zero
\* force accumulator and a zero acceleration.
C7_ForceConsumed ==
    done = Systems =>
       \A i \in DOMAIN world :
          world[i].kind \in {"hare", "wolf", "deer"} =>
             world[i].force = 0 /\ world[i].acc = 0

Overlaps(p, b) ==
    is_some(collide(world[p].pos, Size(SpriteSize), world[b].pos, Size(BulletSize)))

Removals(cs, by, via, id) ==
    {c \in cs : c.op = "despawn" /\ c.by = by /\ c.via = via /\ c.id = id}

\* C8 as stated: in one tick a prey is never the target of both the predator
\* check and the projectile check of its death system.
C8_OneCheck ==
    \A by \in {"hare_die", "deer_die"}, p \in DOMAIN world :
       Removals(cmds, by, "wolf", p) = {} \/ Removals(cmds, by, "bullet", p) = {}

\* C8 (amended): the predator check of hare_die / deer_die targets a prey at
\* most once per tick, for the first wolf on it; the projectile check targets
\* a prey once per projectile on it, whether or not the predator check did.
C8_ChecksIndependent ==
    [][ \A by \in {"hare_die", "deer_die"} :
           last' = by =>
              \A p \in Ids(IF by = "hare_die" THEN "hare" ELSE "deer") :
                 /\ Cardinality(Removals(cmds', by, "wolf", p)) <= 1
                 /\ Removals(cmds', by, "wolf", p) # {}
                      <=> Eater(world[p].pos, Size(SpriteSize)) # 0
                 /\ \A b \in Ids("bullet") :
                       Overlaps(p, b)
                         <=> \E c \in Removals(cmds', by, "bullet", p) : c.other = b
      ]_vars

\* a hare with a wolf and a bullet on it, after hare_die
C8_Witness ==
    /\ last = "hare_die"
    /\ \E p \in Ids("hare") :
          /\ Removals(cmds, "hare_die", "wolf", p) # {}
          /\ Removals(cmds, "hare_die", "bullet", p) # {}

Targets(cs) == {c.id : c \in {d \in cs : d.op = "despawn"}}

\* C9: at the end of a tick exactly the targeted entities leave the world,
\* however many times each was targeted; the others are unchanged and the
\* process does not fault.
C9_Idempotent ==
    [][ last' = "apply" =>
           /\ DOMAIN world \ DOMAIN world' = Targets(cmds) \cap DOMAIN world
           /\ \A i \in DOMAIN world \ Targets(cmds) : world'[i] = world[i]
           /\ ~panicked' ]_vars

\* an entity targeted twice in the tick that has just ended is gone
C9_Witness ==
    /\ last = "apply"
    /\ ~panicked
    /\ \E c, d \in applied :
          /\ c # d
          /\ c.op = "despawn" /\ d.op = "despawn"
          /\ c.id = d.id
          /\ c.id \notin DOMAIN world

\* C10: a wolf that overlaps a projectile at the end of a tick is removed
\* with the projectile.
C10_WolfShot ==
    [][ last' = "apply" =>
           \A w \in Ids("wolf"), b \in Ids("bullet") :
              Overlaps(w, b) => w \notin DOMAIN world' /\ b \notin DOMAIN world'
      ]_vars

\* the threats that trigger the flight of hare h: the other Threat-tagged
\* entities (another Transform) nearer than 100
Triggers(h) ==
    {t \in DOMAIN world :
       /\ IsThreat(world[t])
       /\ ~TransformEq(world[h], world[t])
       /\ FLt(dist(world[h].pos, world[t].pos), W(100))}

C12_BoostDecays ==
    [][ (last' = "hare_flee" /\ activeHares >= HareMaxNumber) =>
           \A h \in Ids("hare") :
              ( /\ world[h].speed = HareMovementSpeed + 50
                /\ now >= world[h].flee_time + MaxFleeTime
                /\ Triggers(h) = {} )
                 => world'[h].speed = HareMovementSpeed ]_vars

OtherGroups(i) == {o \in Ids("deer") : world[o].gid # world[i].gid}

\* the world with every deer of another group than deer i's put at position p
\* with velocity v
Moved(i, p, v) ==
    [j \in DOMAIN world |->
       IF j \in OtherGroups(i) THEN [world[j] EXCEPT !.pos = p, !.vel = v]
       ELSE world[j]]

Elsewhere(i) ==
    {Moved(i, FAdd(world[i].pos, d), v) :
       d \in {W(1), W(300)}, v \in {W(2), NaN}}

\* C13: what deer_alignment, deer_cohesion and deer_separation add to the
\* force of a deer is the same wherever the deer of the other groups are and
\* however they move: next to the deer, ten units away or far off.
C13_FlockInGroup ==
    [][ ( /\ last' \in {"deer_alignment", "deer_cohesion", "deer_separation"}
          /\ ~DeerGateClosed ) =>
           \A i \in Ids("deer") : \A w \in Elsewhere(i) :
              world'[i] = CASE last' = "deer_alignment" -> AlignmentIn(w, i)
                            [] last' = "deer_cohesion" -> CohesionIn(w, i)
                            [] last' = "deer_separation" -> SeparationIn(w, i)
      ]_vars

\* deer_cohesion has just run over a deer that has deer of its own group and
\* a deer of the other group within the perception radius
C13_Witness ==
    /\ last = "deer_cohesion"
    /\ ~DeerGateClosed
    /\ \E i \in Ids("deer") :
          /\ Neighbours(i, W(PerceptionRadius)) # {}
          /\ \E o \in OtherGroups(i) :
                /\ ~TransformEq(world[o], world[i])
                /\ FLt(dist(world[i].pos, world[o].pos), W(PerceptionRadius))

GroupsOf(d) == {g \in DOMAIN deerGroups : deerGroups[g].id = world[d].gid}

\* C14: the ids of the entries of DeerGroups are pairwise distinct, every deer
\* carries the id of exactly one entry, and no more deer carry an id than the
\* member count of its entry.
C14_OneGroup ==
    /\ \A g, h \in DOMAIN deerGroups :
          g # h => deerGroups[g].id # deerGroups[h].id
    /\ \A d \in Ids("deer") : Cardinality(GroupsOf(d)) = 1
    /\ \A g \in DOMAIN deerGroups :
          Cardinality({d \in Ids("deer") : world[d].gid = deerGroups[g].id})
             <= deerGroups[g].count

NoNaN(args) ==
    \A k \in DOMAIN args : ~IsNaN(args[k][1]) /\ ~IsNaN(args[k][2])

\* den, and t and u multiplied by den, for the arguments of a call
Den(args) ==
    (args[1][1] - args[2][1]) * (args[3][2] - args[4][2])
      - (args[1][2] - args[2][2]) * (args[3][1] - args[4][1])
TNum(args) ==
    (args[1][1] - args[3][1]) * (args[3][2] - args[4][2])
      - (args[1][2] - args[3][2]) * (args[3][1] - args[4][1])
UNum(args) ==
    -((args[1][1] - args[2][1]) * (args[1][2] - args[3][2])
      - (args[1][2] - args[2][2]) * (args[1][1] - args[3][1]))

\* den # 0, 0 < t < 1 and u > 1, each inequality multiplied by den * den
Accepted(args) ==
    /\ NoNaN(args)
    /\ Den(args) # 0
    /\ TNum(args) * Den(args) > 0
    /\ TNum(args) * Den(args) < Den(args) * Den(args)
    /\ UNum(args) * Den(args) > Den(args) * Den(args)

\* C15: line_line_intersection returns Ok(p) exactly when den # 0, 0 < t < 1
\* and u > 1, and then p = a1 + t * (a2 - a1) (to the unit of length); in
\* every other case it returns Err.
C15_AcceptRange ==
    (call.fn = "line_line_intersection" /\ call.returned) =>
       IF Accepted(call.args)
       THEN /\ call.value.ok
            /\ Abs(Den(call.args) * (call.value.x - call.args[1][1])
                   - TNum(call.args) * (call.args[2][1] - call.args[1][1]))
                 < Abs(Den(call.args))
            /\ Abs(Den(call.args) * (call.value.y - call.args[1][2])
                   - TNum(call.args) * (call.args[2][2] - call.args[1][2]))
                 < Abs(Den(call.args))
       ELSE call.value = Err

\* the diagonal wall and an agent at x = -5 going down from y = 15 to y = 5:
\* t = 1/4, u = 2, the function has returned Ok((-5, -5))
C15_Witness ==
    /\ call.fn = "line_line_intersection"
    /\ call.returned
    /\ call.args = << <<-10, -10>>, <<10, 10>>, <<-5, 15>>, <<-5, 5>> >>
    /\ call.value = [ok |-> TRUE, x |-> -5, y |-> -5]

\* line_line_intersection has returned for the wall (-10, 0) - (10, 0) and the
\* agent segment b1 - b2
Wall16(b1, b2) ==
    /\ call.fn = "line_line_intersection"
    /\ call.returned
    /\ call.args = << <<-10, 0>>, <<10, 0>>, b1, b2 >>

Ok00 == [ok |-> TRUE, x |-> 0, y |-> 0]

\* C16 as stated: for the wall (-10, 0) - (10, 0) the agent segment from
\* (0, -5) to (0, -15) gives no intersection and the one from (0, 5) to
\* (0, -5) gives Ok((0, 0)).
C16_Examples ==
    /\ Wall16(<<0, -5>>, <<0, -15>>) => call.value = Err
    /\ Wall16(<<0, 5>>, <<0, -5>>) => call.value = Ok00

\* C16 (amended): for the wall (-10, 0) - (10, 0) the agent segment from
\* (0, -5) to (0, -15) gives no intersection (u = -1/2); the one from (0, 5)
\* to (0, -5), which crosses the wall, gives none either (u = 1/2); the one
\* from (0, 15) to (0, 5), which ends before the wall, gives Ok((0, 0))
\* (u = 3/2).
C16_ExamplesAhead ==
    /\ Wall16(<<0, -5>>, <<0, -15>>) => call.value = Err
    /\ Wall16(<<0, 5>>, <<0, -5>>) => call.value = Err
    /\ Wall16(<<0, 15>>, <<0, 5>>) => call.value = Ok00

\* the function has returned for the segment that crosses the wall
C16_Witness ==
    /\ Wall16(<<0, 5>>, <<0, -5>>)
    /\ UNum(call.args) * 2 = Den(call.args)
    /\ ~call.value.ok

Steering == {"seek", "flee", "wander", "pursue", "evade"}

Defined(args) == \A k \in DOMAIN args : ~IsNaN(args[k])

\* C17: set_mag of a zero vector is the zero vector, and seek, flee, wander,
\* pursue and evade return a force that is not NaN for arguments that are not
\* NaN, also when target and position coincide or the velocity is zero.
C17_ZeroSafe ==
    /\ (call.fn = "set_mag" /\ call.returned /\ call.args[1] = 0)
          => call.value = 0
    /\ (call.fn \in Steering /\ call.returned /\ Defined(call.args))
          => ~IsNaN(call.value)

Species == {"hare", "wolf", "deer"}

Target(k) ==
    CASE k = "hare" -> settings.hare_max_number
      [] k = "wolf" -> settings.wolf_max_number
      [] k = "deer" -> settings.deer_group_number

SystemsOf(k) ==
    CASE k = "hare" -> {"hare_spawn", "hare_flee", "hare_move", "hare_wander",
                        "hare_evade_walls", "hare_die"}
      [] k = "wolf" -> {"wolf_spawn", "wolf_wander", "wolf_evade_walls",
                        "wolf_pursue", "wolf_move", "wolf_starve"}
      [] k = "deer" -> {"deer_spawn", "deer_wander", "deer_flee",
                        "deer_alignment", "deer_cohesion", "deer_separation",
                        "deer_evade_walls", "deer_evade", "deer_move",
                        "deer_die"}

\* C19: with a population target of zero no agent of the species is ever
\* queued for spawning or alive, and no system of the species faults.
C19_ZeroTolerated ==
    /\ [](\A k \in Species : Target(k) = 0 =>
            /\ Ids(k) = {}
            /\ \A c \in cmds : c.op = "spawn" => c.ent.kind # k)
    /\ [][\A k \in Species :
            (Target(k) = 0 /\ last' \in SystemsOf(k)) => ~panicked']_vars

\* in the third tick or later the wander system of the hares has run over no
\* hare at all, with wolves alive
C19_Witness ==
    /\ settings.hare_max_number = 0
    /\ last = "hare_wander"
    /\ now >= 3
    /\ Ids("hare") = {}
    /\ Ids("wolf") # {}
    /\ ~panicked

ForceSystems(k) ==
    CASE k = "hare" -> {"hare_wander", "hare_flee", "hare_evade_walls"}
      [] k = "wolf" -> {"wolf_wander", "wolf_evade_walls", "wolf_pursue"}
      [] k = "deer" -> {"deer_wander", "deer_flee", "deer_alignment",
                        "deer_cohesion", "deer_separation",
                        "deer_evade_walls", "deer_evade"}

SpawnOf(k) ==
    CASE k = "hare" -> "hare_spawn"
      [] k = "wolf" -> "wolf_spawn"
      [] k = "deer" -> "deer_spawn"

IntegratorOf(k) ==
    CASE k = "hare" -> "hare_move"
      [] k = "wolf" -> "wolf_move"
      [] k = "deer" -> "deer_move"

\* C20: whenever a force-contributing system of a species runs, the spawn
\* system of the species has run in this tick and its integrator has not.
C20_ForceOrder ==
    [][\A k \in Species :
         last' \in ForceSystems(k) =>
            /\ SpawnOf(k) \in done
            /\ IntegratorOf(k) \notin done]_vars

\* the integrators that update the positions a collision check reads
ReadsPositionsOf(s) ==
    CASE s = "hare_die" -> {"hare_move", "wolf_move"}
      [] s = "deer_die" -> {"deer_move", "wolf_move"}
      [] s = "player_die" -> {"wolf_move"}

\* C21: whenever hare_die, deer_die or player_die runs, the integrators of
\* the species whose positions it reads have already run in this tick.
C21_MoveBeforeDie ==
    [][\A s \in {"hare_die", "deer_die", "player_die"} :
         last' = s => ReadsPositionsOf(s) \subseteq done]_vars

FlockingRules == {"deer_alignment", "deer_cohesion", "deer_separation"}

\* C22: when a flocking rule runs with the gate open, a deer with no other
\* deer of its group within the perception radius keeps its force as it was,
\* and every deer counted by deer_separation is at a distance that is not 0.
C22_NoZeroDivisor ==
    [][(last' \in FlockingRules /\ ~DeerGateClosed) =>
         \A i \in Ids("deer") :
            /\ Neighbours(i, W(PerceptionRadius)) = {} =>
                  world'[i].force = world[i].force
            /\ last' = "deer_separation" =>
                  \A o \in Neighbours(i, W(PerceptionRadius)) :
                     dist(world[i].pos, world[o].pos) # 0]_vars

PreyKinds == {"hare", "deer", "player"}

DieOf(k) ==
    CASE k = "hare" -> "hare_die"
      [] k = "deer" -> "deer_die"
      [] k = "player" -> "player_die"

\* the wolves whose box overlaps the box of prey p
Overlapping(p) ==
    {w \in Ids("wolf") :
       is_some(collide(world[p].pos, Size(SpriteSize),
                       world[w].pos, Size(SpriteSize)))}

\* the wolves that are first, in iteration order, on some prey of kind k
FirstOn(k) ==
    {w \in Ids("wolf") :
       \E p \in Ids(k) : w \in Overlapping(p) /\ \A v \in Overlapping(p) : w <= v}

\* C23: when hare_die, deer_die or player_die runs, the wolves that are the
\* first overlapping wolf of some prey of the kind get hunger_time = now, each
\* overlapped prey is despawned once on account of that one wolf, and the
\* hunger_time of every other wolf stays as it was.
C23_FirstMatch ==
    [][\A k \in PreyKinds :
         last' = DieOf(k) =>
            /\ \A w \in Ids("wolf") :
                  world'[w].hunger_time =
                     IF w \in FirstOn(k) THEN now ELSE world[w].hunger_time
            /\ \A p \in Ids(k) :
                  Cardinality({c \in cmds' \ cmds : c.id = p /\ c.via = "wolf"})
                     = IF Overlapping(p) = {} THEN 0 ELSE 1]_vars

\* a prey check has just fed the first of two wolves that overlap one prey
\* and left the clock of the second as it was
C23_Witness ==
    /\ last \in {"hare_die", "deer_die", "player_die"}
    /\ \E k \in PreyKinds :
         /\ last = DieOf(k)
         /\ \E p \in Ids(k) : \E w, v \in Overlapping(p) :
              /\ w < v
              /\ world[w].hunger_time = now
              /\ world[v].hunger_time # now
              /\ \E c \in cmds : c.id = p /\ c.via = "wolf" /\ c.other = w

GateOpen(k) ==
    CASE k = "hare" -> activeHares >= settings.hare_max_number
      [] k = "wolf" -> activeWolves >= settings.wolf_max_number
      [] k = "deer" -> ~DeerGateClosed

\* the six assignments of the spec, in its order, applied to e
Stepped(e) ==
    LET acceleration == FAdd(e.acc, e.force)
        unclamped == FAdd(e.vel, acceleration)
        velocity == limit(unclamped, TimeStep(e.speed))
    IN  [vel |-> velocity, pos |-> FAdd(e.pos, velocity), acc |-> 0, force |-> 0]

\* C24: an integrator that runs with its gate open leaves every agent of its
\* species with the velocity the six assignments give, a speed of at most
\* MovementSpeed * TIME_STEP, the position moved by that velocity, and zero
\* acceleration and force.
C24_IntegratorStep ==
    [][\A k \in Species :
         (last' = IntegratorOf(k) /\ GateOpen(k)) =>
            \A i \in Ids(k) :
               /\ FEq(world'[i].vel, Stepped(world[i]).vel)
               /\ FGe(TimeStep(world[i].speed), Abs(world'[i].vel))
               /\ FEq(world'[i].pos, Stepped(world[i]).pos)
               /\ world'[i].acc = 0
               /\ world'[i].force = 0]_vars

\* the sum of f[x] over the x in S, in f32 arithmetic
RECURSIVE FSum(_, _)
FSum(f, S) ==
    IF S = {} THEN 0
    ELSE LET x == CHOOSE y \in S : TRUE
         IN  FAdd(f[x], FSum(f, S \ {x}))

\* the prey at a distance of at most 100 from wolf w
PreyInReach(w) ==
    {p \in DOMAIN world :
       /\ IsPrey(world[p])
       /\ FGe(W(100), dist(world[w].pos, world[p].pos))}

\* pursue(wolf, prey) * weight
PursueForce(w, p) ==
    FMul(pursue(world[w].pos, world[w].vel, world[p].pos, world[p].vel,
                TimeStep(world[w].speed)),
         PursueWeight)

\* C25: wolf_pursue with the gate open adds to the force of each wolf the sum
\* of pursue(wolf, prey) * weight over the prey at a distance of at most 100,
\* and changes nothing else of the wolf and nothing of any other entity.
C25_PursueSum ==
    [][(last' = "wolf_pursue" /\ GateOpen("wolf")) =>
         \A i \in DOMAIN world :
            world'[i] =
               IF world[i].kind = "wolf"
               THEN [world[i] EXCEPT !.force =
                       FAdd(world[i].force,
                            FSum([p \in PreyInReach(i) |-> PursueForce(i, p)],
                                 PreyInReach(i)))]
               ELSE world[i]]_vars

FleeSystemOf(k) == IF k = "hare" THEN "hare_flee" ELSE "deer_flee"

\* the speed flee is called with: a fleeing hare has base + 50
FleeSpeed(i) ==
    IF world[i].kind = "hare" THEN TimeStep(HareMovementSpeed + 50)
    ELSE TimeStep(world[i].speed)

\* the force of i after a flee force times the weight is added for every t
\* in from
FledFrom(i, from) ==
    FAdd(world[i].force,
         FSum([t \in from |->
                 FMul(flee(world[i].pos, world[i].vel, world[t].pos, FleeSpeed(i)),
                      FleeWeight)],
              from))

\* C26 as stated: hare_flee and deer_flee with the gate open add one flee
\* force times the weight for every other wolf, player or hare nearer than
\* 100, and nothing for the others.
C26_FleeEveryThreat ==
    [][\A k \in {"hare", "deer"} :
         (last' = FleeSystemOf(k) /\ GateOpen(k)) =>
            \A i \in Ids(k) :
               world'[i].force =
                  FledFrom(i, {t \in DOMAIN world \ {i} :
                                 /\ IsThreat(world[t])
                                 /\ FLt(dist(world[i].pos, world[t].pos), W(100))})]_vars

\* the Threat-tagged entities the threat query of the flee system of i yields
ThreatQuery(i) ==
    {t \in DOMAIN world :
       /\ IsThreat(world[t])
       /\ world[i].kind = "deer" => world[t].kind # "hare"}

\* C26 (amended): a hare flees every wolf, player and hare, a deer every wolf
\* and player but no hare; a threat counts when its Transform differs from
\* the agent's own and its distance is below 100.
C26_FleeQueriedThreats ==
    [][\A k \in {"hare", "deer"} :
         (last' = FleeSystemOf(k) /\ GateOpen(k)) =>
            \A i \in Ids(k) :
               world'[i].force =
                  FledFrom(i, {t \in ThreatQuery(i) :
                                 /\ ~TransformEq(world[i], world[t])
                                 /\ FLt(dist(world[i].pos, world[t].pos), W(100))})]_vars

\* deer_flee has run, gate open, over a deer that has a hare and a wolf or
\* the player nearer than 100: its force has changed
C26_Witness ==
    /\ last = "deer_flee"
    /\ ~DeerGateClosed
    /\ \E i \in Ids("deer") :
         /\ \E t \in Ids("hare") : FLt(dist(world[i].pos, world[t].pos), W(100))
         /\ \E t \in Ids("wolf") \cup Ids("player") :
               FLt(dist(world[i].pos, world[t].pos), W(100))
         /\ ~IsNaN(world[i].force)
         /\ world[i].force # 0

\* C27: the hare and wolf counters never decrease, the list of deer groups
\* only grows at its end, and a gate that is open is open after every step,
\* so the systems of the species pass their gate test from then on.
C27_GateStaysOpen ==
    /\ [][/\ activeHares' >= activeHares
          /\ activeWolves' >= activeWolves
          /\ Len(deerGroups') >= Len(deerGroups)
          /\ SubSeq(deerGroups', 1, Len(deerGroups)) = deerGroups]_vars
    /\ [][\A k \in Species : GateOpen(k) => GateOpen(k)']_vars

\* wolf_move has passed its gate test in a tick in which no wolf is alive
C27_Witness ==
    /\ last = "wolf_move"
    /\ GateOpen("wolf")
    /\ activeWolves = WolfMaxNumber
    /\ Ids("wolf") = {}
    /\ now > 2

\* C28: no more hares and wolves are alive than max_number, the length of the
\* displacements of hare_wander and wolf_wander; no more deer carry the id of
\* a group than its count, the length of the displacements deer_wander makes
\* for the group; and no wander system has panicked.
C28_WanderInRange ==
    /\ Cardinality(Ids("hare")) <= settings.hare_max_number
    /\ Cardinality(Ids("wolf")) <= settings.wolf_max_number
    /\ \A g \in DOMAIN deerGroups :
          Cardinality({d \in Ids("deer") : world[d].gid = deerGroups[g].id})
             <= deerGroups[g].count
    /\ ~panicked

\* the pairs <<a, b>> for which the labels force a before b: Before and what
\* follows from it by transitivity
Forced ==
    LET R == Before
        step(S) == S \cup {<<a, c>> \in Systems \X Systems :
                             \E b \in Systems : <<a, b>> \in S /\ <<b, c>> \in S}
    IN  step(step(step(R)))

\* the systems that read positions and velocities of agents of other species
\* and the species they read
ReadBy(r) ==
    CASE r = "wolf_pursue" -> {"hare", "deer"}
      [] r = "deer_evade" -> {"wolf"}
      [] r = "deer_flee" -> {"wolf"}
      [] r = "hare_flee" -> {"wolf"}

ReaderSpecies(r) ==
    CASE r = "wolf_pursue" -> "wolf"
      [] r = "deer_evade" -> "deer"
      [] r = "deer_flee" -> "deer"
      [] r = "hare_flee" -> "hare"

\* C29: whenever wolf_pursue, deer_evade, deer_flee or hare_flee runs over
\* agents of its own species and reads agents of another species whose gate
\* is open, the integrator of that species has run or not run in this tick as
\* the labels force it, so that every permitted order gives the same reads.
C29_ReadsOrdered ==
    [][\A r \in {"wolf_pursue", "deer_evade", "deer_flee", "hare_flee"} :
         (last' = r /\ GateOpen(ReaderSpecies(r)) /\ Ids(ReaderSpecies(r)) # {}) =>
            \A k \in ReadBy(r) :
               (GateOpen(k) /\ Ids(k) # {}) =>
                  IF IntegratorOf(k) \in done
                  THEN <<IntegratorOf(k), r>> \in Forced
                  ELSE <<r, IntegratorOf(k)>> \in Forced]_vars

\* the wolves a prey-death system has fed in the tick that is ending
FedThisTick ==
    {w \in Ids("wolf") :
       \E c \in cmds : c.op = "despawn" /\ c.via = "wolf" /\ c.other = w}

\* C30: a wolf that was fed in a tick has its clock at the time of the tick
\* and is alive when the tick has ended, whether or not its deadline had
\* passed and wherever wolf_starve ran in the tick.
C30_FeedingWins ==
    [][last' = "apply" =>
         \A w \in FedThisTick :
            /\ w \in DOMAIN world'
            /\ world'[w].hunger_time = now]_vars

====
